---- MODULE Spec2Model ----
(***************************************************************************)
(* Ride pooling backend: the request submission and cancellation handlers, *)
(* the Redis queue, the timer-driven batch worker and the grouping pass    *)
(* (matchRequests).                                                        *)
(*                                                                         *)
(* Spec      : the handlers and the batch worker interleaved at their      *)
(*             await points.  MongoDB and Redis are collaborators: every   *)
(*             awaited storage call of the worker either resolves with the *)
(*             effect the code asks for or rejects (and the worker's catch *)
(*             block runs).                                                *)
(* LiveSpec  : the same handlers and worker with no outage, fair           *)
(*             scheduling, and RidePool.create resolving exactly when the  *)
(*             status it is given passes the enum validator of the         *)
(*             RidePool schema.                                            *)
(* MatchSpec : the pure grouping pass applied to bounded batches.          *)
(***************************************************************************)
EXTENDS Integers, Sequences, FiniteSets, TLC

\* ---------------------------------------------------------------- bounds
MaxRequests == 2
MaxCycles == 2

\* ------------------------------------------------------ program constants
BATCH_SIZE == 5
MAX_PASSENGERS_PER_POOL == 4
NoPool == 0

\* Declared status values of the two schemas, and the values the code writes
RideRequestStatusEnum ==
    {"pending", "matched", "confirmed", "in_transit", "completed", "cancelled"}

RidePoolStatusEnum == {"pending", "active", "completed", "cancelled"}

WorkerRequestStatus == "ASSIGNED"

WorkerPoolStatus == "ASSIGNED"

\* a guard list that lets a cancelled request through
CancelGuardStatusesOpen == {"assigned", "completed"}

CancelGuardStatuses == {"assigned", "completed", "cancelled"}

\* Passenger counts and luggage units a client may send to POST /rides/request
PassengerInputs == {0, 3, 5}

LuggageInputs == {-1, 0, 11}

VARIABLES
    requests,      \* RideRequest collection: sequence of documents, _id = index
    pools,         \* RidePool collection: sequence of documents, _id = index
    queue,         \* the Redis list "ride:queue": sequence of request snapshots
    submitting,    \* createRideRequest handlers between RideRequest.create and rpush
    cancelPc,      \* cancelRideRequest handler position, per request id
    cancelDoc,     \* status held by the document findById loaded, per request id
    cycle,         \* batch cycles started by setInterval: pc, batch, pool, index
    notified,      \* "Ride assigned" notifications sent: <<request id, pool id>>
    poolGroup,     \* history: the drained batch each pool was created for
    mBatch,        \* MatchSpec: the batch handed to matchRequests
    mPools,        \* MatchSpec: the pools matchRequests returned
    mPc,           \* MatchSpec: "build" or "matched"
    removed,       \* history: requests whose queue entry a cancel's lrem removed
    lastCall,      \* HandlerSpec, QueueSpec: the last call made and what it returned
    now,           \* the hour of day the server's clock shows (getHours)
    today          \* the day of the week it shows (getDay: 0 is Sunday)

sysVars == <<requests, pools, queue, submitting, cancelPc, cancelDoc, cycle,
             notified, poolGroup>>

matchVars == <<mBatch, mPools, mPc>>

auxVars == <<removed, lastCall, now, today>>

vars == <<requests, pools, queue, submitting, cancelPc, cancelDoc, cycle,
          notified, poolGroup, mBatch, mPools, mPc, removed, lastCall, now,
          today>>

\* ----------------------------------------------------------------- helpers
RequestIds == 1..Len(requests)

IdleCycle == [pc |-> "idle", batch |-> <<>>, pool |-> NoPool, i |-> 0]

Min(a, b) == IF a < b THEN a ELSE b

\* rideRequest.toObject() serialised for the queue: its _id and passenger count
Snapshot(id) == [_id |-> id, passengers |-> requests[id].passengers]

\* a dequeue that pops from the other end of the list
DequeueBatchTail(q, size) == SubSeq(q, Len(q) - Min(size, Len(q)) + 1, Len(q))

\* dequeueBatch(size): a pipeline of `size` LPOPs; null replies are filtered out
DequeueBatch(q, size) == SubSeq(q, 1, Min(size, Len(q)))

\* a dequeue that reads the head of the list without removing it
DequeueRestKeep(q, size) == q

DequeueRest(q, size) == SubSeq(q, Min(size, Len(q)) + 1, Len(q))

\* an lrem whose value matches no stored element: nothing is removed
LremNoMatch(q, value) == q

\* redis.lrem(key, 0, value): removes every element equal to value
Lrem(q, value) == SelectSeq(q, LAMBDA e : e # value)

\* no call made yet
NoCall == [op |-> "none"]

InQueue(q, id) == \E k \in 1..Len(q) : q[k]._id = id

Init ==
    /\ requests = <<>>
    /\ pools = <<>>
    /\ queue = <<>>
    /\ submitting = {}
    /\ cancelPc = [id \in 1..MaxRequests |-> "idle"]
    /\ cancelDoc = [id \in 1..MaxRequests |-> "none"]
    /\ cycle = [c \in 1..MaxCycles |-> IdleCycle]
    /\ notified = {}
    /\ poolGroup = <<>>
    /\ mBatch = <<>>
    /\ mPools = <<>>
    /\ mPc = "build"
    /\ removed = {}
    /\ lastCall = NoCall
    /\ now = 8
    /\ today = 1

\* ------------------------------------------------------ createRideRequest
\* the luggage test left out of the validation
InvalidPassengersOnly(p, l) == p < 1 \/ p > 4

\* the two range tests of the validation block
InvalidBody(p, l) == (p < 1 \/ p > 4) \/ (l < 0 \/ l > 10)

\* the document RideRequest.create({..., status: "pending"}) stores; poolId
\* defaults to null
NewRequest(p, l) ==
    [status |-> "pending", poolId |-> NoPool, passengers |-> p, luggage |-> l]

\* passengers outside 1..4 or luggage outside 0..10: 400, nothing stored,
\* nothing queued
SubmitRejected(p, l) ==
    /\ InvalidBody(p, l)
    /\ UNCHANGED <<requests, pools, queue, submitting, cancelPc, cancelDoc, cycle,
                   notified, poolGroup>>
    /\ UNCHANGED <<matchVars, auxVars>>

\* the validation passes: RideRequest.create resolves
SubmitCreate(p, l) ==
    /\ ~InvalidBody(p, l)
    /\ Len(requests) < MaxRequests
    /\ requests' = Append(requests, NewRequest(p, l))
    /\ submitting' = submitting \cup {Len(requests) + 1}
    /\ UNCHANGED <<pools, queue, cancelPc, cancelDoc, cycle, notified, poolGroup>>
    /\ UNCHANGED <<matchVars, auxVars>>

\* redis.rpush("ride:queue", JSON.stringify(rideRequest.toObject())), then 201
SubmitEnqueue(id) ==
    /\ id \in submitting
    /\ queue' = Append(queue, Snapshot(id))
    /\ submitting' = submitting \ {id}
    /\ UNCHANGED <<requests, pools, cancelPc, cancelDoc, cycle, notified, poolGroup>>
    /\ UNCHANGED <<matchVars, auxVars>>

\* ------------------------------------------------------ cancelRideRequest
\* A client cancels an id it was given in a 201 response, or an unknown id.
\* One call per request is in flight at a time.
\* findById returns null: 404
CancelNotFound ==
    /\ Len(requests) < MaxRequests
    /\ UNCHANGED <<requests, pools, queue, submitting, cancelPc, cancelDoc, cycle,
                   notified, poolGroup>>
    /\ UNCHANGED <<matchVars, auxVars>>

\* the status guard of cancelRideRequest, on the document findById loaded
CancelGuard(status) == status \in CancelGuardStatuses

\* findById, then the guard rejects: 409
CancelRejected(id) ==
    /\ id \in RequestIds /\ id \notin submitting
    /\ cancelPc[id] = "idle"
    /\ CancelGuard(requests[id].status)
    /\ UNCHANGED <<requests, pools, queue, submitting, cancelPc, cancelDoc, cycle,
                   notified, poolGroup>>
    /\ UNCHANGED <<matchVars, auxVars>>

\* findById, the guard passes: the handler goes on to save()
CancelFind(id) ==
    /\ id \in RequestIds /\ id \notin submitting
    /\ cancelPc[id] = "idle"
    /\ ~CancelGuard(requests[id].status)
    /\ cancelDoc' = [cancelDoc EXCEPT ![id] = requests[id].status]
    /\ cancelPc' = [cancelPc EXCEPT ![id] = "save"]
    /\ UNCHANGED <<requests, pools, queue, submitting, cycle, notified, poolGroup>>
    /\ UNCHANGED <<matchVars, auxVars>>

\* the status assigned on the loaded document and never saved
SaveUnwritten(reqs, id) == reqs

\* rideRequest.status = "cancelled"; rideRequest.save(): writes the modified path
SaveCancelled(reqs, id) == [reqs EXCEPT ![id].status = "cancelled"]

CancelSave(id) ==
    /\ cancelPc[id] = "save"
    /\ requests' = SaveCancelled(requests, id)
    /\ cancelDoc' = [cancelDoc EXCEPT ![id] = "cancelled"]
    /\ cancelPc' = [cancelPc EXCEPT ![id] = "scan"]
    /\ UNCHANGED <<pools, queue, submitting, cycle, notified, poolGroup>>
    /\ UNCHANGED <<matchVars, auxVars>>

\* lrange over the queue finds an item of this request: lrem is issued next
CancelScanHit(id) ==
    /\ cancelPc[id] = "scan"
    /\ InQueue(queue, id)
    /\ cancelPc' = [cancelPc EXCEPT ![id] = "lrem"]
    /\ UNCHANGED <<requests, pools, queue, submitting, cancelDoc, cycle, notified,
                   poolGroup>>
    /\ UNCHANGED <<matchVars, auxVars>>

\* lrange finds no item of this request: 200
CancelScanMiss(id) ==
    /\ cancelPc[id] = "scan"
    /\ ~InQueue(queue, id)
    /\ cancelPc' = [cancelPc EXCEPT ![id] = "idle"]
    /\ cancelDoc' = [cancelDoc EXCEPT ![id] = "none"]
    /\ UNCHANGED <<requests, pools, queue, submitting, cycle, notified, poolGroup>>
    /\ UNCHANGED <<matchVars, auxVars>>

\* redis.lrem("ride:queue", 0, item), then 200; `removed` records a reply > 0
CancelRemove(id) ==
    /\ cancelPc[id] = "lrem"
    /\ queue' = Lrem(queue, Snapshot(id))
    /\ removed' = IF queue' # queue THEN removed \cup {id} ELSE removed
    /\ cancelPc' = [cancelPc EXCEPT ![id] = "idle"]
    /\ cancelDoc' = [cancelDoc EXCEPT ![id] = "none"]
    /\ UNCHANGED <<requests, pools, submitting, cycle, notified, poolGroup>>
    /\ UNCHANGED <<matchVars, lastCall, now, today>>

\* ------------------------------------------------------------ batch worker
\* setInterval fires: a new cycle starts and its dequeueBatch(5) pipeline runs.
\* Nothing in the callback looks at whether an earlier cycle is still awaiting.
\* Cycle slots are interchangeable: a new cycle takes the first free one.
\* A rejection that no try block catches ends the process, and its timer with it.
TickGuard(c) ==
    /\ cycle[c].pc = "idle"
    /\ \A d \in 1..(c - 1) : cycle[d].pc # "idle"
    /\ \A d \in 1..MaxCycles : cycle[d].pc # "crashed"

\* a try block that opens after the dequeue
TryBlockAfterDequeue == {"RidePool.create", "RideRequest.updateOne"}

\* the awaited calls inside the callback's try block
TryBlock == {"dequeueBatch", "RidePool.create", "RideRequest.updateOne"}

CrashedCycle == [pc |-> "crashed", batch |-> <<>>, pool |-> NoPool, i |-> 0]

\* an awaited call rejects: inside the try block the catch logs and the
\* callback ends; outside it the rejection is unhandled
AfterRejection(call) == IF call \in TryBlock THEN IdleCycle ELSE CrashedCycle

Tick(c) ==
    /\ TickGuard(c)
    /\ cycle' = [cycle EXCEPT ![c] = [pc |-> "dequeued",
                                      batch |-> DequeueBatch(queue, BATCH_SIZE),
                                      pool |-> NoPool, i |-> 0]]
    /\ queue' = DequeueRest(queue, BATCH_SIZE)
    /\ UNCHANGED <<requests, pools, submitting, cancelPc, cancelDoc, notified,
                   poolGroup>>
    /\ UNCHANGED <<matchVars, auxVars>>

\* the pipeline rejects (Redis unreachable): the catch block logs
TickQueueDown(c) ==
    /\ TickGuard(c)
    /\ cycle' = [cycle EXCEPT ![c] = AfterRejection("dequeueBatch")]
    /\ UNCHANGED <<requests, pools, queue, submitting, cancelPc, cancelDoc, notified,
                   poolGroup>>
    /\ UNCHANGED <<matchVars, auxVars>>

\* the length test left out: an empty batch goes on to RidePool.create
EmptyBatchNever(batch) == FALSE

\* batch.length === 0
EmptyBatch(batch) == Len(batch) = 0

\* if (batch.length === 0) return
CycleEmpty(c) ==
    /\ cycle[c].pc = "dequeued"
    /\ EmptyBatch(cycle[c].batch)
    /\ cycle' = [cycle EXCEPT ![c] = IdleCycle]
    /\ UNCHANGED <<requests, pools, queue, submitting, cancelPc, cancelDoc, notified,
                   poolGroup>>
    /\ UNCHANGED <<matchVars, auxVars>>

\* the document RidePool.create({ status: "ASSIGNED" }) stores: requests defaults to []
NewPool == [status |-> WorkerPoolStatus, requests |-> {}]

BatchIds(batch) == {batch[k]._id : k \in 1..Len(batch)}

\* RidePool.create resolves: one pool for the whole drained batch
CycleCreate(c) ==
    /\ cycle[c].pc = "dequeued"
    /\ ~EmptyBatch(cycle[c].batch)
    /\ pools' = Append(pools, NewPool)
    /\ poolGroup' = Append(poolGroup, BatchIds(cycle[c].batch))
    /\ cycle' = [cycle EXCEPT ![c].pc = "update", ![c].pool = Len(pools) + 1,
                              ![c].i = 1]
    /\ UNCHANGED <<requests, queue, submitting, cancelPc, cancelDoc, notified>>
    /\ UNCHANGED <<matchVars, auxVars>>

\* RidePool.create rejects: the catch block logs, the drained batch is dropped
CycleCreateRejected(c) ==
    /\ cycle[c].pc = "dequeued"
    /\ ~EmptyBatch(cycle[c].batch)
    /\ cycle' = [cycle EXCEPT ![c] = AfterRejection("RidePool.create")]
    /\ UNCHANGED <<requests, pools, queue, submitting, cancelPc, cancelDoc, notified,
                   poolGroup>>
    /\ UNCHANGED <<matchVars, auxVars>>

\* RideRequest.updateOne({ _id }, { status: "ASSIGNED", poolId }): the filter is
\* the id alone, so the write lands whatever the stored status is
UpdateOne(reqs, id, poolId) ==
    [reqs EXCEPT ![id].status = WorkerRequestStatus, ![id].poolId = poolId]

\* one turn of the for loop: updateOne resolves, notifyUser, next member or done
CycleUpdate(c) ==
    /\ cycle[c].pc = "update"
    /\ LET id == cycle[c].batch[cycle[c].i]._id
       IN /\ requests' = UpdateOne(requests, id, cycle[c].pool)
          /\ notified' = notified \cup {<<id, cycle[c].pool>>}
    /\ cycle' = IF cycle[c].i = Len(cycle[c].batch)
                THEN [cycle EXCEPT ![c] = IdleCycle]
                ELSE [cycle EXCEPT ![c].i = cycle[c].i + 1]
    /\ UNCHANGED <<pools, queue, submitting, cancelPc, cancelDoc, poolGroup>>
    /\ UNCHANGED <<matchVars, auxVars>>

\* updateOne rejects: the exception leaves the loop, the catch block logs
CycleUpdateRejected(c) ==
    /\ cycle[c].pc = "update"
    /\ cycle' = [cycle EXCEPT ![c] = AfterRejection("RideRequest.updateOne")]
    /\ UNCHANGED <<requests, pools, queue, submitting, cancelPc, cancelDoc, notified,
                   poolGroup>>
    /\ UNCHANGED <<matchVars, auxVars>>

\* (luggage plays no part in the worker: the bodies submitted here carry
\* luggage 0, and HandlerSpec submits every luggage input)
Next ==
    \/ \E p \in PassengerInputs : SubmitRejected(p, 0)
    \/ \E p \in PassengerInputs : SubmitCreate(p, 0)
    \/ \E id \in 1..MaxRequests : SubmitEnqueue(id)
    \/ CancelNotFound
    \/ \E id \in 1..MaxRequests : CancelRejected(id)
    \/ \E id \in 1..MaxRequests : CancelFind(id)
    \/ \E id \in 1..MaxRequests : CancelSave(id)
    \/ \E id \in 1..MaxRequests : CancelScanHit(id)
    \/ \E id \in 1..MaxRequests : CancelScanMiss(id)
    \/ \E id \in 1..MaxRequests : CancelRemove(id)
    \/ \E c \in 1..MaxCycles : Tick(c)
    \/ \E c \in 1..MaxCycles : TickQueueDown(c)
    \/ \E c \in 1..MaxCycles : CycleEmpty(c)
    \/ \E c \in 1..MaxCycles : CycleCreate(c)
    \/ \E c \in 1..MaxCycles : CycleCreateRejected(c)
    \/ \E c \in 1..MaxCycles : CycleUpdate(c)
    \/ \E c \in 1..MaxCycles : CycleUpdateRejected(c)

Spec == Init /\ [][Next]_vars

\* ============================================================ grouping pass
\* (price.service.js, "Matching Algorithm Service")
MaxBatchLen == 3

MAX_LUGGAGE_PER_PERSON == 10
MAX_DETOUR_MINUTES == 10
PROXIMITY_THRESHOLD_M == 2000
AVG_SPEED_KMPH == 50

\* Coordinates in 1e-4 degrees: JFK, a kerb 0.44 km away, a lot 2.08 km from JFK
\* (1.68 km from the kerb), lower Manhattan, Times Square, Empire State
Latitude == <<406413, 406450, 406600, 407128, 407580, 407484>>

Longitude == <<-737781, -737800, -737781, -740060, -739855, -739857>>

\* calculateDistance (haversine, R = 6371 km) between those coordinates, in metres
HaversineMetres ==
    << <<0, 442, 2079, 20798, 21773, 21170>>,
       <<442, 0, 1676, 20495, 21400, 20807>>,
       <<2079, 1676, 0, 20093, 20600, 20071>>,
       <<20798, 20495, 20093, 0, 5315, 4312>>,
       <<21773, 21400, 20600, 5315, 0, 1068>>,
       <<21170, 20807, 20071, 4312, 1068, 0>> >>

calculateDistance(coord1, coord2) == HaversineMetres[coord1][coord2]

Abs(x) == IF x < 0 THEN -x ELSE x

CeilDiv(a, b) == (a + b - 1) \div b

\* Math.ceil((distance / 50) * 60), distance in metres here
calculateEstimatedTime(metres) == CeilDiv(metres * 60, AVG_SPEED_KMPH * 1000)

\* JavaScript's  x || d  on a number: 0 (like undefined) gives d
OrDefault(x, d) == IF x = 0 THEN d ELSE x

\* Inputs of the grouping pass: what createRideRequest admits
PickupChoices == {1, 2, 3}
DropoffChoices == {5}
PassengerChoices == {1, 3}
LuggageChoices == {10}
MaxDetourChoices == {0, 1, 10}

areRequestsCompatible(req1, req2, currentPoolSeats) ==
    LET totalLuggage == OrDefault(req1.luggage, 0) + OrDefault(req2.luggage, 0)
        totalPassengers == OrDefault(req1.passengers, 1) + OrDefault(req2.passengers, 1)
        pickupDistance == calculateDistance(req1.pickupLocation, req2.pickupLocation)
        dropoffDistance == calculateDistance(req1.dropoffLocation, req2.dropoffLocation)
        detourMinutes == calculateEstimatedTime(pickupDistance + dropoffDistance)
    IN  IF req2.passengers > currentPoolSeats THEN FALSE
        ELSE IF totalLuggage > totalPassengers * MAX_LUGGAGE_PER_PERSON THEN FALSE
        ELSE IF detourMinutes > OrDefault(req2.maxDetour, MAX_DETOUR_MINUTES) THEN FALSE
        ELSE IF pickupDistance > PROXIMITY_THRESHOLD_M THEN FALSE
        ELSE TRUE

\* the comparator's key: |pickup latitude| + |pickup longitude|
SortKey(r) == Abs(Latitude[r.pickupLocation]) + Abs(Longitude[r.pickupLocation])

\* Array.prototype.sort is stable: equal keys keep their arrival order
RECURSIVE InsertSorted(_, _)
InsertSorted(sorted, r) ==
    IF sorted = <<>> THEN <<r>>
    ELSE IF SortKey(sorted[Len(sorted)]) <= SortKey(r) THEN Append(sorted, r)
    ELSE Append(InsertSorted(SubSeq(sorted, 1, Len(sorted) - 1), r), sorted[Len(sorted)])

\* the batch left in arrival order
KeepArrivalOrder(reqs) == reqs

RECURSIVE SortRequests(_)
SortRequests(reqs) ==
    IF reqs = <<>> THEN <<>>
    ELSE InsertSorted(SortRequests(SubSeq(reqs, 1, Len(reqs) - 1)), reqs[Len(reqs)])

\* a pool that takes nobody in
CompatibleWithNobody(poolRequests, currentReq, availableSeats) == FALSE

\* poolRequests.every(req => areRequestsCompatible(req, currentReq, availableSeats))
CompatibleWithAll(poolRequests, currentReq, availableSeats) ==
    \A k \in 1..Len(poolRequests) :
        areRequestsCompatible(poolRequests[k], currentReq, availableSeats)

\* the decrement left out: the pool never fills
SeatsAfterNoDecrement(availableSeats, currentReq) == availableSeats

\* availableSeats -= currentReq.passengers
SeatsAfter(availableSeats, currentReq) == availableSeats - currentReq.passengers

\* the inner loop over j: returns the pool's members (indices into sorted)
RECURSIVE FillPool(_, _, _, _, _)
FillPool(sorted, j, members, matched, availableSeats) ==
    IF j > Len(sorted) THEN members
    ELSE IF j \in matched THEN FillPool(sorted, j + 1, members, matched, availableSeats)
    ELSE LET currentReq == sorted[j]
             poolRequests == [k \in 1..Len(members) |-> sorted[members[k]]]
         IN  IF CompatibleWithAll(poolRequests, currentReq, availableSeats)
                /\ currentReq.passengers <= availableSeats
             THEN IF SeatsAfter(availableSeats, currentReq) <= 0
                  THEN Append(members, j)
                  ELSE FillPool(sorted, j + 1, Append(members, j), matched \cup {j},
                                SeatsAfter(availableSeats, currentReq))
             ELSE FillPool(sorted, j + 1, members, matched, availableSeats)

RECURSIVE SumOver(_, _)
SumOver(seq, field) ==
    IF seq = <<>> THEN 0
    ELSE (IF field = "passengers" THEN OrDefault(seq[1].passengers, 1)
          ELSE OrDefault(seq[1].luggage, 0)) + SumOver(Tail(seq), field)

\* sum of each member's own trip plus the legs from one member's drop-off to
\* the next member's pickup, in metres
RECURSIVE OwnTrips(_)
OwnTrips(reqs) ==
    IF reqs = <<>> THEN 0
    ELSE calculateDistance(reqs[1].pickupLocation, reqs[1].dropoffLocation)
         + OwnTrips(Tail(reqs))

RECURSIVE Legs(_)
Legs(reqs) ==
    IF Len(reqs) < 2 THEN 0
    ELSE calculateDistance(reqs[1].dropoffLocation, reqs[2].pickupLocation)
         + Legs(Tail(reqs))

calculatePoolRouteDistance(reqs) ==
    IF Len(reqs) = 0 THEN 0
    ELSE IF Len(reqs) = 1
         THEN calculateDistance(reqs[1].pickupLocation, reqs[1].dropoffLocation)
         ELSE OwnTrips(reqs) + Legs(reqs)

\* the hours calculatePoolFare takes as peak
PoolFarePeak(hour) == (hour >= 9 /\ hour <= 11) \/ (hour >= 17 /\ hour <= 19)

\* the hours a client's clock may show when the grouping pass runs
HourChoices == {8, 9}

\* calculatePoolFare(distance, duration), in cents, on metres and minutes:
\* 5.00 + 0.50 per km + 0.25 per minute, times 1.5 when new Date().getHours()
\* is a peak hour, rounded up to the cent.  In twentieths of a cent the
\* unrounded fare is 10000 + metres + 500 * minutes.
calculatePoolFare(distance, duration) ==
    LET fare == 10000 + distance + 500 * duration
    IN  IF PoolFarePeak(now) THEN CeilDiv(3 * fare, 40) ELSE CeilDiv(fare, 20)

\* the pool object pushed for one group
PoolObject(poolRequests) ==
    LET routeDistance == calculatePoolRouteDistance(poolRequests)
        estimatedDuration == calculateEstimatedTime(routeDistance)
    IN  [requests |-> [k \in 1..Len(poolRequests) |-> poolRequests[k].id],
         totalPassengers |-> SumOver(poolRequests, "passengers"),
         totalLuggage |-> SumOver(poolRequests, "luggage"),
         estimatedDistance |-> routeDistance,
         estimatedDuration |-> estimatedDuration,
         pickupLocation |-> poolRequests[1].pickupLocation,
         dropoffLocation |-> poolRequests[Len(poolRequests)].dropoffLocation,
         baseFare |-> calculatePoolFare(routeDistance, estimatedDuration),
         costPerPerson |->
             CeilDiv(calculatePoolFare(routeDistance, estimatedDuration),
                     Len(poolRequests))]

SeqRange(seq) == {seq[k] : k \in 1..Len(seq)}

\* only the seed is marked: members added by the inner loop stay unclaimed
MarkMatchedSeedOnly(matched, members) == matched \cup {members[1]}

\* matched.add(i) for the seed and matched.add(j) for every member added
MarkMatched(matched, members) == matched \cup SeqRange(members)

\* the outer loop over i
RECURSIVE MatchFrom(_, _, _, _)
MatchFrom(sorted, i, matched, poolsSoFar) ==
    IF i > Len(sorted) THEN poolsSoFar
    ELSE IF i \in matched THEN MatchFrom(sorted, i + 1, matched, poolsSoFar)
    ELSE LET members == FillPool(sorted, i + 1, <<i>>, matched \cup {i},
                                 MAX_PASSENGERS_PER_POOL - OrDefault(sorted[i].passengers, 1))
             poolRequests == [k \in 1..Len(members) |-> sorted[members[k]]]
         IN  MatchFrom(sorted, i + 1, MarkMatched(matched, members),
                       Append(poolsSoFar, PoolObject(poolRequests)))

matchRequests(reqs) ==
    IF reqs = <<>> THEN <<>> ELSE MatchFrom(SortRequests(reqs), 1, {}, <<>>)

\* a client's request joins the batch, in arrival order
AddRequest(pick, drop, p, l, d) ==
    /\ mPc = "build"
    /\ Len(mBatch) < MaxBatchLen
    /\ mBatch' = Append(mBatch, [id |-> Len(mBatch) + 1, pickupLocation |-> pick,
                                 dropoffLocation |-> drop, passengers |-> p,
                                 luggage |-> l, maxDetour |-> d])
    /\ UNCHANGED <<mPools, mPc>>
    /\ UNCHANGED <<sysVars, auxVars>>

RunMatch ==
    /\ mPc = "build"
    /\ mPools' = matchRequests(mBatch)
    /\ mPc' = "matched"
    /\ UNCHANGED mBatch
    /\ UNCHANGED <<sysVars, auxVars>>

\* the same batch is handed to matchRequests once more
RunMatchAgain ==
    /\ mPc = "matched"
    /\ mPools' = matchRequests(mBatch)
    /\ UNCHANGED <<mBatch, mPc>>
    /\ UNCHANGED <<sysVars, auxVars>>

\* time passes between two runs: the server's clock shows another hour
ClockShows(hour) ==
    /\ mPc = "matched"
    /\ hour # now
    /\ now' = hour
    /\ UNCHANGED <<sysVars, matchVars, removed, lastCall, today>>

MatchNext ==
    \/ \E pick \in PickupChoices, drop \in DropoffChoices, p \in PassengerChoices,
          l \in LuggageChoices, d \in MaxDetourChoices : AddRequest(pick, drop, p, l, d)
    \/ RunMatch
    \/ RunMatchAgain
    \/ \E hour \in HourChoices : ClockShows(hour)

MatchSpec == Init /\ [][MatchNext]_vars

\* batches whose requests differ in drop-off as well as in pickup
OrderDropoffChoices == {5, 6}

OrderNext ==
    \/ \E pick \in PickupChoices, drop \in OrderDropoffChoices, p \in PassengerChoices :
            AddRequest(pick, drop, p, 10, 10)
    \/ RunMatch

OrderSpec == Init /\ [][OrderNext]_vars

\* ==================================================== notification outcomes
\* notifyUser(userId, payload) sends only when `clients` holds a socket for the
\* user; with none (or one that has closed) nothing is sent and nothing is
\* thrown.  Spec takes every notification as sent; here each one is sent or not.
\* a send that throws into the cycle's catch block
CycleNotifyThrows(c) ==
    /\ cycle[c].pc = "update"
    /\ requests' = UpdateOne(requests, cycle[c].batch[cycle[c].i]._id, cycle[c].pool)
    /\ cycle' = [cycle EXCEPT ![c] = IdleCycle]
    /\ UNCHANGED <<pools, queue, submitting, cancelPc, cancelDoc, notified, poolGroup>>
    /\ UNCHANGED <<matchVars, auxVars>>

\* one turn of the for loop: updateOne resolves, notifyUser finds no open socket
CycleUpdateUndelivered(c) ==
    /\ cycle[c].pc = "update"
    /\ requests' = UpdateOne(requests, cycle[c].batch[cycle[c].i]._id, cycle[c].pool)
    /\ cycle' = IF cycle[c].i = Len(cycle[c].batch)
                THEN [cycle EXCEPT ![c] = IdleCycle]
                ELSE [cycle EXCEPT ![c].i = cycle[c].i + 1]
    /\ UNCHANGED <<pools, queue, submitting, cancelPc, cancelDoc, notified, poolGroup>>
    /\ UNCHANGED <<matchVars, auxVars>>

NotifyNext ==
    \/ \E p \in PassengerInputs, l \in LuggageInputs : SubmitCreate(p, l)
    \/ \E id \in 1..MaxRequests : SubmitEnqueue(id)
    \/ \E c \in 1..MaxCycles : Tick(c)
    \/ \E c \in 1..MaxCycles : CycleEmpty(c)
    \/ \E c \in 1..MaxCycles : CycleCreate(c)
    \/ \E c \in 1..MaxCycles : CycleUpdate(c)
    \/ \E c \in 1..MaxCycles : CycleUpdateUndelivered(c)

NotifySpec == Init /\ [][NotifyNext]_vars

\* ============================================================ the queue
\* (ride.queue.js: enqueueRide and dequeueBatch called one after the other)
MaxQueueLen == 6

\* entries a caller enqueues, and the sizes dequeueBatch is called with
QueueData == {[_id |-> 1, passengers |-> 3], [_id |-> 2, passengers |-> 3]}

DequeueSizes == {2, BATCH_SIZE}

\* redis.rpush(QUEUE, JSON.stringify(data))
enqueueRide(data) ==
    /\ Len(queue) < MaxQueueLen
    /\ queue' = Append(queue, data)
    /\ lastCall' = [op |-> "enqueueRide", data |-> data]
    /\ UNCHANGED <<requests, pools, submitting, cancelPc, cancelDoc, cycle, notified,
                   poolGroup>>
    /\ UNCHANGED <<matchVars, removed, now, today>>

\* the pipeline of `size` LPOPs, nulls filtered out, the rest parsed and returned
dequeueBatch(size) ==
    /\ queue' = DequeueRest(queue, size)
    /\ lastCall' = [op |-> "dequeueBatch", size |-> size,
                    result |-> DequeueBatch(queue, size)]
    /\ UNCHANGED <<requests, pools, submitting, cancelPc, cancelDoc, cycle, notified,
                   poolGroup>>
    /\ UNCHANGED <<matchVars, removed, now, today>>

QueueNext ==
    \/ \E data \in QueueData : enqueueRide(data)
    \/ \E size \in DequeueSizes : dequeueBatch(size)

QueueSpec == Init /\ [][QueueNext]_vars

\* ============================================================ no outage
\* Mongoose runs the schema's validators on Model.create
ValidatesEnum(value, enum) == value \in enum

\* RidePool.create({ status: "ASSIGNED" }) under the RidePool schema: the status
\* must be one of the declared values, otherwise create rejects with a
\* ValidationError and the worker's catch block runs
CycleCreateValidated(c) ==
    IF ValidatesEnum(NewPool.status, RidePoolStatusEnum)
    THEN CycleCreate(c)
    ELSE /\ cycle[c].pc = "dequeued"
         /\ ~EmptyBatch(cycle[c].batch)
         /\ cycle' = [cycle EXCEPT ![c] = AfterRejection("RidePool.create")]
         /\ UNCHANGED <<requests, pools, queue, submitting, cancelPc, cancelDoc,
                        notified, poolGroup>>
         /\ UNCHANGED <<matchVars, auxVars>>

\* ================================================== drains of a long queue
\* More requests wait than one cycle drains: entries are enqueued one by one
\* (no request is enqueued while an entry of it waits or sits in a running
\* cycle's batch) and the worker ticks; every cycle ends as it does under the
\* RidePool schema.
DrainIds == 1..6

Waiting(id) ==
    \/ InQueue(queue, id)
    \/ \E c \in 1..MaxCycles : InQueue(cycle[c].batch, id)

\* a push onto the head of the list
LpushRide(id) ==
    /\ ~Waiting(id)
    /\ queue' = <<[_id |-> id, passengers |-> 1]>> \o queue
    /\ UNCHANGED <<requests, pools, submitting, cancelPc, cancelDoc, cycle, notified,
                   poolGroup>>
    /\ UNCHANGED <<matchVars, auxVars>>

\* redis.rpush("ride:queue", JSON.stringify(rideRequest.toObject())) of a submit
RpushRide(id) ==
    /\ ~Waiting(id)
    /\ queue' = Append(queue, [_id |-> id, passengers |-> 1])
    /\ UNCHANGED <<requests, pools, submitting, cancelPc, cancelDoc, cycle, notified,
                   poolGroup>>
    /\ UNCHANGED <<matchVars, auxVars>>

DrainNext ==
    \/ \E id \in DrainIds : RpushRide(id)
    \/ \E c \in 1..MaxCycles : Tick(c)
    \/ \E c \in 1..MaxCycles : CycleEmpty(c)
    \/ \E c \in 1..MaxCycles : CycleCreateValidated(c)

DrainSpec == Init /\ [][DrainNext]_vars

\* ================================================ overlapping pipelines
\* dequeueBatch taken one LPOP at a time.  Redis runs each LPOP on its own and
\* a pipeline is no transaction, so between two LPOPs of one dequeueBatch call
\* an LPOP of another call, or a submit's rpush, may run.
PopIds == 1..4

\* an LPOP that reads the head of the list and leaves it there
LpopRestKeep(q) == q

\* the list after LPOP
LpopRest(q) == IF q = <<>> THEN q ELSE Tail(q)

\* the reply of LPOP as dequeueBatch keeps it: a null reply (empty list) is
\* dropped by filter(Boolean)
LpopReply(q) == IF q = <<>> THEN <<>> ELSE <<Head(q)>>

\* the timer fires: the callback calls dequeueBatch(5), which queues the LPOPs
PipelineSend(c) ==
    /\ TickGuard(c)
    /\ cycle' = [cycle EXCEPT ![c] = [pc |-> "popping", batch |-> <<>>,
                                      pool |-> NoPool, i |-> 0]]
    /\ UNCHANGED <<requests, pools, queue, submitting, cancelPc, cancelDoc, notified,
                   poolGroup>>
    /\ UNCHANGED <<matchVars, auxVars>>

\* Redis runs the next LPOP of the call; after the last one exec() resolves
\* with the replies
PipelineLpop(c) ==
    /\ cycle[c].pc = "popping"
    /\ cycle' = [cycle EXCEPT ![c] =
                    [pc |-> IF cycle[c].i + 1 = BATCH_SIZE THEN "dequeued" ELSE "popping",
                     batch |-> cycle[c].batch \o LpopReply(queue),
                     pool |-> NoPool,
                     i |-> IF cycle[c].i + 1 = BATCH_SIZE THEN 0 ELSE cycle[c].i + 1]]
    /\ queue' = LpopRest(queue)
    /\ UNCHANGED <<requests, pools, submitting, cancelPc, cancelDoc, notified,
                   poolGroup>>
    /\ UNCHANGED <<matchVars, auxVars>>

PopNext ==
    \/ \E id \in PopIds : RpushRide(id)
    \/ \E c \in 1..MaxCycles : PipelineSend(c)
    \/ \E c \in 1..MaxCycles : PipelineLpop(c)
    \/ \E c \in 1..MaxCycles : CycleEmpty(c)
    \/ \E c \in 1..MaxCycles : CycleCreateValidated(c)

PopSpec == Init /\ [][PopNext]_vars

\* ======================================================== price calculator
\* (price.service.js, "Price Calculator Service").  Distances are in metres,
\* durations in minutes, money in cents; a multiplier is a number of
\* hundredths (150 is 1.5), and a product of multipliers is a fraction in
\* lowest terms.  The arithmetic is exact; on the inputs drawn below the code's
\* doubles give the same cents (no product falls on a half cent).
RECURSIVE Gcd(_, _)
Gcd(a, b) == IF b = 0 THEN a ELSE Gcd(b, a % b)

Fraction(n, d) == [num |-> n \div Gcd(n, d), den |-> d \div Gcd(n, d)]

\* a * (hundredths / 100)
Times(a, hundredths) == Fraction(a.num * hundredths, a.den * 100)

\* PEAK_HOURS.some(period => hour >= period.start && hour < period.end)
isPeakHour == (now >= 9 /\ now < 11) \/ (now >= 17 /\ now < 19)

\* day === 0 || day === 6
isWeekend == today = 0 \/ today = 6

\* the last branch without Math.min
calculateSurgeMultiplierUncapped(queueSize) ==
    IF queueSize < 5 THEN 100
    ELSE IF queueSize < 10 THEN 110
    ELSE IF queueSize < 20 THEN 125
    ELSE IF queueSize < 50 THEN 150
    ELSE 100 + queueSize

calculateSurgeMultiplier(queueSize) ==
    IF queueSize < 5 THEN 100
    ELSE IF queueSize < 10 THEN 110
    ELSE IF queueSize < 20 THEN 125
    ELSE IF queueSize < 50 THEN 150
    ELSE Min(200, 100 + queueSize)

\* a fare that takes 0.05 off for every minute
calculateBaseFareMinutesOff(distance, duration) == 10000 + distance - 100 * duration

\* BASE_FARE + distance * PER_KM_RATE + duration * PER_MINUTE_RATE, in
\* twentieths of a cent: 5.00 is 10000, 0.50 per km is 1 per metre, 0.25 per
\* minute is 500
calculateBaseFare(distance, duration) == 10000 + distance + 500 * duration

getMultipliers(queueSize, isPool) ==
    LET peakHour == IF isPeakHour THEN 150 ELSE 100
        weekend == IF isWeekend THEN 120 ELSE 100
        surge == calculateSurgeMultiplier(queueSize)
        poolDiscount == IF isPool THEN 75 ELSE 100
    IN  [peakHour |-> peakHour, weekend |-> weekend, surge |-> surge,
         poolDiscount |-> poolDiscount,
         total |-> Times(Times(Times(Times(Fraction(1, 1), peakHour), weekend),
                               surge), poolDiscount)]

\* round(value): Math.round(value * 100) / 100 on the amount n / d cents;
\* Math.round takes a half upwards
round(n, d) == (n \div d) + (IF 2 * (n % d) >= d THEN 1 ELSE 0)

\* calculatePrice(distance, duration, {queueSize, isPool, weatherMultiplier})
calculatePrice(distance, duration, queueSize, isPool, weatherMultiplier) ==
    LET baseFare == calculateBaseFare(distance, duration)
        multipliers == getMultipliers(queueSize, isPool)
        total == Times(multipliers.total, weatherMultiplier)
    IN  [baseFare |-> round(baseFare, 20),
         duration |-> duration,
         peakHour |-> multipliers.peakHour,
         weekend |-> multipliers.weekend,
         surge |-> multipliers.surge,
         poolDiscount |-> multipliers.poolDiscount,
         weather |-> weatherMultiplier,
         finalPrice |-> round(baseFare * total.num, 20 * total.den)]

\* calculatePoolPrice: the pooled price and its share per passenger
calculatePoolPrice(distance, duration, passengers, queueSize) ==
    LET fullPrice == calculatePrice(distance, duration, queueSize, TRUE, 100)
    IN  [finalPrice |-> fullPrice.finalPrice,
         passengers |-> passengers,
         pricePerPerson |-> round(fullPrice.finalPrice, passengers),
         totalPoolPrice |-> fullPrice.finalPrice]

\* Math.ceil(R * c * 10) / 10: the haversine distance rounded up to 0.1 km
estimateDistance(coord1, coord2) == CeilDiv(HaversineMetres[coord1][coord2], 100) * 100

\* estimatePrice(request, {isPool, queueSize}): the final price of the estimate
estimatePrice(request, isPool, queueSize) ==
    LET distance == estimateDistance(request.pickupLocation, request.dropoffLocation)
        duration == CeilDiv(distance * 60, 50 * 1000)
        passengers == OrDefault(request.passengers, 1)
    IN  IF isPool /\ passengers > 1
        THEN calculatePoolPrice(distance, duration, passengers, queueSize)
        ELSE calculatePrice(distance, duration, queueSize, isPool, 100)

\* inputs of the calculator's functions
DistanceChoices == {442, 1676, 21773}

DurationChoices == {0, 27}

QueueSizeChoices == {0, 4, 5, 9, 10, 19, 20, 49, 50, 60, 99, 100, 150}

PriceQueueSizes == {0, 10, 60}

WeatherChoices == {100, 130}

\* hours on both sides of each end of the two peak periods, and the days on
\* both sides of each end of the weekend
Hours == {0, 8, 9, 10, 11, 12, 16, 17, 18, 19, 20, 23}

Days == {0, 1, 5, 6}

\* a caller asks for the surge multiplier at a queue size
CallSurgeMultiplier(queueSize) ==
    /\ lastCall' = [op |-> "calculateSurgeMultiplier", queueSize |-> queueSize,
                    result |-> calculateSurgeMultiplier(queueSize)]
    /\ UNCHANGED <<sysVars, matchVars, removed, now, today>>

\* a caller asks for a price
CallCalculatePrice(distance, duration, queueSize, isPool, weatherMultiplier) ==
    /\ lastCall' = [op |-> "calculatePrice", distance |-> distance,
                    duration |-> duration, queueSize |-> queueSize,
                    isPool |-> isPool, weatherMultiplier |-> weatherMultiplier,
                    result |-> calculatePrice(distance, duration, queueSize, isPool,
                                              weatherMultiplier)]
    /\ UNCHANGED <<sysVars, matchVars, removed, now, today>>

\* the grouping pass is handed a batch of one request
CallMatchSingle(pick, drop, p) ==
    LET batch == <<[id |-> 1, pickupLocation |-> pick, dropoffLocation |-> drop,
                    passengers |-> p, luggage |-> 0, maxDetour |-> 10]>>
    IN  /\ lastCall' = [op |-> "matchRequests", batch |-> batch,
                        result |-> matchRequests(batch)]
        /\ UNCHANGED <<sysVars, matchVars, removed, now, today>>

\* the server's clock moves to another hour or day; lastCall is kept only
\* while the clock shows the time the call was made at
ClockTurns(hour, day) ==
    /\ <<hour, day>> # <<now, today>>
    /\ now' = hour
    /\ today' = day
    /\ lastCall' = NoCall
    /\ UNCHANGED <<sysVars, matchVars, removed>>

PriceNext ==
    \/ \E queueSize \in QueueSizeChoices : CallSurgeMultiplier(queueSize)
    \/ \E distance \in DistanceChoices, duration \in DurationChoices,
          queueSize \in PriceQueueSizes, isPool \in BOOLEAN,
          weatherMultiplier \in WeatherChoices :
            CallCalculatePrice(distance, duration, queueSize, isPool, weatherMultiplier)
    \/ \E pick \in PickupChoices, drop \in DropoffChoices, p \in PassengerChoices :
            CallMatchSingle(pick, drop, p)
    \/ \E hour \in Hours, day \in Days : ClockTurns(hour, day)

PriceSpec == Init /\ [][PriceNext]_vars

\* ================================================= handlers, one at a time
\* Each HTTP handler run from request to response with no other handler in
\* between, its response recorded; the batch worker ticks between the calls.
\* POST /rides/request
createRideRequest(p, l) ==
    /\ IF InvalidBody(p, l)
       THEN /\ lastCall' = [op |-> "createRideRequest", passengers |-> p,
                            luggage |-> l, status |-> 400]
            /\ UNCHANGED <<requests, queue>>
       ELSE /\ Len(requests) < MaxRequests
            /\ requests' = Append(requests, NewRequest(p, l))
            /\ queue' = Append(queue, [_id |-> Len(requests) + 1, passengers |-> p])
            /\ lastCall' = [op |-> "createRideRequest", passengers |-> p,
                            luggage |-> l, status |-> 201]
    /\ UNCHANGED <<pools, submitting, cancelPc, cancelDoc, cycle, notified, poolGroup>>
    /\ UNCHANGED <<matchVars, removed, now, today>>

\* POST /rides/:requestId/cancel
cancelRideRequest(id) ==
    /\ IF id \notin RequestIds
       THEN /\ lastCall' = [op |-> "cancelRideRequest", requestId |-> id, status |-> 404]
            /\ UNCHANGED <<requests, queue, removed>>
       ELSE IF CancelGuard(requests[id].status)
       THEN /\ lastCall' = [op |-> "cancelRideRequest", requestId |-> id, status |-> 409]
            /\ UNCHANGED <<requests, queue, removed>>
       ELSE /\ requests' = SaveCancelled(requests, id)
            /\ queue' = IF InQueue(queue, id) THEN Lrem(queue, Snapshot(id)) ELSE queue
            /\ removed' = IF queue' # queue THEN removed \cup {id} ELSE removed
            /\ lastCall' = [op |-> "cancelRideRequest", requestId |-> id, status |-> 200]
    /\ UNCHANGED <<pools, submitting, cancelPc, cancelDoc, cycle, notified, poolGroup>>
    /\ UNCHANGED <<matchVars, now, today>>

\* what a client sends as the pickup coordinates (0: the parameters are
\* missing) and as isPool, and whether redis.llen resolves
EstimatePickups == {0, 1}

EstimateIsPool == {"true", "absent"}

\* an estimate that also puts its mock request on the queue
getPriceEstimateEnqueues(pick, p, isPool, llenResolves) ==
    /\ pick # 0
    /\ llenResolves
    /\ Len(queue) < MaxQueueLen
    /\ queue' = Append(queue, [_id |-> 0, passengers |-> p])
    /\ lastCall' = [op |-> "getPriceEstimate", status |-> 200]
    /\ UNCHANGED <<requests, pools, submitting, cancelPc, cancelDoc, cycle, notified,
                   poolGroup>>
    /\ UNCHANGED <<matchVars, removed, now, today>>

\* GET /rides/estimate-price (drop-off at Times Square)
getPriceEstimate(pick, p, isPool, llenResolves) ==
    /\ lastCall' =
         IF pick = 0
         THEN [op |-> "getPriceEstimate", status |-> 400]
         ELSE IF ~llenResolves
         THEN [op |-> "getPriceEstimate", status |-> 500]
         ELSE [op |-> "getPriceEstimate", status |-> 200,
               estimate |-> estimatePrice([pickupLocation |-> pick, dropoffLocation |-> 5,
                                           passengers |-> p],
                                          isPool = "true", Len(queue)),
               currentQueueSize |-> Len(queue)]
    /\ UNCHANGED <<sysVars, matchVars, removed, now, today>>

HandlerNext ==
    \/ \E p \in PassengerInputs, l \in LuggageInputs : createRideRequest(p, l)
    \/ \E id \in 1..MaxRequests : cancelRideRequest(id)
    \/ \E pick \in EstimatePickups, p \in PassengerInputs, isPool \in EstimateIsPool,
          llenResolves \in BOOLEAN : getPriceEstimate(pick, p, isPool, llenResolves)
    \/ \E c \in 1..MaxCycles : Tick(c)
    \/ \E c \in 1..MaxCycles : CycleEmpty(c)
    \/ \E c \in 1..MaxCycles : CycleCreateValidated(c)

HandlerSpec == Init /\ [][HandlerNext]_vars

\* ============================================================ fair worker
LiveNext ==
    \/ \E p \in PassengerInputs, l \in LuggageInputs : SubmitRejected(p, l)
    \/ \E p \in PassengerInputs, l \in LuggageInputs : SubmitCreate(p, l)
    \/ \E id \in 1..MaxRequests : SubmitEnqueue(id)
    \/ CancelNotFound
    \/ \E id \in 1..MaxRequests : CancelRejected(id)
    \/ \E id \in 1..MaxRequests : CancelFind(id)
    \/ \E id \in 1..MaxRequests : CancelSave(id)
    \/ \E id \in 1..MaxRequests : CancelScanHit(id)
    \/ \E id \in 1..MaxRequests : CancelScanMiss(id)
    \/ \E id \in 1..MaxRequests : CancelRemove(id)
    \/ \E c \in 1..MaxCycles : Tick(c)
    \/ \E c \in 1..MaxCycles : CycleEmpty(c)
    \/ \E c \in 1..MaxCycles : CycleCreateValidated(c)

\* the timer keeps firing and every awaited call returns
LiveSpec ==
    /\ Init
    /\ [][LiveNext]_vars
    /\ WF_vars(\E c \in 1..MaxCycles : Tick(c))
    /\ WF_vars(\E c \in 1..MaxCycles : CycleEmpty(c))
    /\ WF_vars(\E c \in 1..MaxCycles : CycleCreateValidated(c))
    /\ WF_vars(\E id \in 1..MaxRequests : SubmitEnqueue(id))

\* ================================================================== claims
IsAssigned(id) == requests[id].status = WorkerRequestStatus

RunningCycles == {c \in 1..MaxCycles : cycle[c].pc # "idle"}

\* C1: of a cancel and a batch assignment racing on one request only the first
\* transition away from pending takes effect: a cancelled request is never
\* overwritten to assigned and an assigned request is never set to cancelled.
C1_FirstTransitionWins ==
    [][\A id \in RequestIds :
          /\ requests[id].status = "cancelled" => ~IsAssigned(id)'
          /\ IsAssigned(id) => requests'[id].status # "cancelled"]_vars

\* C2: a cancel called on a request the worker has assigned is rejected (409):
\* the handler does not get past its status guard, and the request and its
\* pool are unchanged.
C2_CancelAfterAssignRejected ==
    [][\A id \in RequestIds :
          (IsAssigned(id) /\ cancelPc[id] = "idle")
          => /\ cancelPc'[id] = "idle"
             /\ requests'[id] = requests[id]
             /\ pools'[requests[id].poolId] = pools[requests[id].poolId]]_vars

\* C3: at most one batch cycle is running at any time.
C3_SingleCycle == Cardinality(RunningCycles) <= 1

\* C4: a request's pool reference names a stored pool whose member set
\* contains the request.
C4_PoolContainsMember ==
    \A id \in RequestIds :
        requests[id].poolId # NoPool
        => /\ requests[id].poolId \in 1..Len(pools)
           /\ id \in pools[requests[id].poolId].requests

\* no request was drained into the batches of two pools
ExclusiveMembership ==
    \A p, q \in 1..Len(poolGroup) : p # q => poolGroup[p] \cap poolGroup[q] = {}

\* C5: once set, a request's pool reference never changes, and no request
\* belongs to the groups of two pools.
C5_AssignedOnce ==
    [][/\ \A id \in RequestIds :
             requests[id].poolId # NoPool => requests'[id].poolId = requests[id].poolId
       /\ ExclusiveMembership']_vars

\* C5 witness: a request keeps its pool reference while a later cycle has
\* committed another pool
C5_Witness ==
    \E id \in RequestIds :
        /\ requests[id].poolId # NoPool
        /\ Len(pools) > requests[id].poolId

\* occurrences of a request id in the member lists of the output pools
Placements(id) ==
    {pk \in {<<p, k>> : p \in 1..Len(mPools), k \in 1..MaxBatchLen} :
        pk[2] <= Len(mPools[pk[1]].requests) /\ mPools[pk[1]].requests[pk[2]] = id}

\* C6: the pools matchRequests returns partition the batch: every request is
\* in exactly one pool, every member is a request of the batch, no pool is empty.
C6_PoolsPartitionBatch ==
    (mPc = "matched" /\ mBatch # <<>>)
    => /\ \A id \in 1..Len(mBatch) : Cardinality(Placements(id)) = 1
       /\ \A p \in 1..Len(mPools) :
             /\ Len(mPools[p].requests) >= 1
             /\ SeqRange(mPools[p].requests) \subseteq 1..Len(mBatch)

\* C6 witness: a batch of three split into a shared pool and a pool of one
C6_Witness ==
    /\ mPc = "matched"
    /\ Len(mBatch) = 3
    /\ Len(mPools) = 2
    /\ \E p \in 1..Len(mPools) : Len(mPools[p].requests) = 2

RECURSIVE PrefixTotal(_, _, _)
PrefixTotal(ids, n, field) ==
    IF n = 0 THEN 0
    ELSE (IF field = "passengers" THEN mBatch[ids[n]].passengers
          ELSE mBatch[ids[n]].luggage) + PrefixTotal(ids, n - 1, field)

\* C7: every output pool, after each member it accepted and when closed, holds
\* at most 4 passengers and at most 10 luggage units per passenger.
C7_PoolWithinCapacity ==
    mPc = "matched"
    => \A p \in 1..Len(mPools) :
          /\ mPools[p].totalPassengers <= MAX_PASSENGERS_PER_POOL
          /\ mPools[p].totalLuggage <= MAX_LUGGAGE_PER_PERSON * mPools[p].totalPassengers
          /\ \A n \in 1..Len(mPools[p].requests) :
                /\ PrefixTotal(mPools[p].requests, n, "passengers")
                      <= MAX_PASSENGERS_PER_POOL
                /\ PrefixTotal(mPools[p].requests, n, "luggage")
                      <= MAX_LUGGAGE_PER_PERSON
                           * PrefixTotal(mPools[p].requests, n, "passengers")

\* C7 witness: a pool filled to exactly four seats by several members, with a
\* compatible request left over for a pool of its own
C7_Witness ==
    /\ mPc = "matched"
    /\ \E p \in 1..Len(mPools) :
          /\ mPools[p].totalPassengers = MAX_PASSENGERS_PER_POOL
          /\ Len(mPools[p].requests) >= 2
    /\ \A a, b \in 1..Len(mBatch) : mBatch[a].pickupLocation = mBatch[b].pickupLocation
    /\ Len(mPools) = 2

RECURSIVE PassengersOf(_)
PassengersOf(ids) ==
    IF ids = {} THEN 0
    ELSE LET id == CHOOSE x \in ids : TRUE
         IN  requests[id].passengers + PassengersOf(ids \ {id})

\* the requests whose pool reference is p
MembersOf(p) == {id \in RequestIds : requests[id].poolId = p}

\* C8: every pool the worker commits carries at most 4 passengers (the drained
\* batch is split by the grouping pass before pools are committed).
C8_CommittedPoolWithinCapacity ==
    \A p \in 1..Len(pools) : PassengersOf(MembersOf(p)) <= MAX_PASSENGERS_PER_POOL

\* C9: once the cycle that created a pool has ended, the pool has members that
\* were transitioned, and no member of its group is left pending beside them.
C9_CommitAllOrNothing ==
    \A p \in 1..Len(pools) :
        (\A c \in 1..MaxCycles : cycle[c].pool # p)
        => /\ MembersOf(p) # {}
           /\ \A id \in poolGroup[p] \ MembersOf(p) : requests[id].status # "pending"

\* a cancel was called on the request
CancelCalled(id) == cancelPc[id] # "idle" \/ requests[id].status = "cancelled"

\* C10: with the timer firing and no outage, every request that was submitted
\* and is never cancelled is eventually assigned, with a pool reference, and
\* out of the queue.
C10_EventuallyAssigned ==
    \A id \in 1..MaxRequests :
        (id \in RequestIds /\ id \notin submitting)
        ~> (id \in RequestIds
            /\ (CancelCalled(id)
                \/ (IsAssigned(id) /\ requests[id].poolId # NoPool
                    /\ ~InQueue(queue, id))))

\* a cancel of request id sends its 200 at this step
CancelCompletes(id) == cancelPc[id] \in {"scan", "lrem"} /\ cancelPc'[id] = "idle"

C12_CancelPendingSucceeds ==
    [][\A id \in RequestIds :
          /\ requests[id].status = "pending" => ~CancelGuard(requests[id].status)
          /\ (cancelPc[id] = "save" /\ cancelPc'[id] # "save"
                /\ requests[id].status = "pending")
                => /\ cancelPc'[id] = "scan"
                   /\ requests'[id].status = "cancelled"
                   /\ requests'[id].poolId = NoPool
          /\ (CancelCompletes(id) /\ requests[id].status = "cancelled")
                => requests'[id] = requests[id]]_vars

\* C12 witness: a cancel of a pending request whose entry a cycle had already
\* drained has answered 200: cancelled, no pool reference
C12_Witness ==
    \E id \in RequestIds :
        /\ requests[id].status = "cancelled"
        /\ requests[id].poolId = NoPool
        /\ cancelPc[id] = "idle"
        /\ id \notin removed

\* C13: a tick that finds the queue empty is a no-op: its dequeue returns an
\* empty batch, the cycle returns at the length test, and neither step creates
\* a pool, writes a request, sends a notification or changes the queue.
C13_EmptyTickNoOp ==
    [][\A c \in 1..MaxCycles :
          /\ (cycle[c].pc = "idle" /\ cycle'[c].pc = "dequeued" /\ queue = <<>>)
                => /\ cycle'[c].batch = <<>>
                   /\ UNCHANGED <<requests, pools, queue, notified>>
          /\ (cycle[c].pc = "dequeued" /\ cycle[c].batch = <<>> /\ cycle'[c] # cycle[c])
                => /\ cycle'[c] = IdleCycle
                   /\ UNCHANGED <<requests, pools, queue, notified>>]_vars

\* C13 witness: a tick found the queue empty while a stored request is pending
C13_Witness ==
    /\ \E c \in 1..MaxCycles : cycle[c].pc = "dequeued" /\ cycle[c].batch = <<>>
    /\ \E id \in RequestIds : requests[id].status = "pending"
    /\ queue = <<>>
    /\ pools = <<>>

\* C14: dequeueBatch(n) on a list of length L returns the first min(n, L)
\* entries in enqueue order, removes exactly those, and leaves the rest in
\* their order; with L < n it returns the L entries there are.
C14_DequeueBatchFifo ==
    [][(lastCall'.op = "dequeueBatch" /\ lastCall' # lastCall)
          => LET n == lastCall'.size
                 L == Len(queue)
                 k == IF n < L THEN n ELSE L
             IN  /\ Len(lastCall'.result) = k
                 /\ \A j \in 1..k : lastCall'.result[j] = queue[j]
                 /\ Len(queue') = L - k
                 /\ \A j \in 1..(L - k) : queue'[j] = queue[k + j]
                 /\ lastCall'.result \o queue' = queue]_vars

\* C14 witness: a call with n = 5 on a longer list returned five entries, not
\* all alike, and left the rest
C14_Witness ==
    /\ lastCall.op = "dequeueBatch"
    /\ Len(lastCall.result) = BATCH_SIZE
    /\ \E j \in 1..(BATCH_SIZE - 1) : lastCall.result[j] # lastCall.result[j + 1]
    /\ queue # <<>>

\* C15: a submit whose passenger count is outside 1..4 or whose luggage is
\* outside 0..10 is answered 400, stores no request record and adds nothing to
\* the queue; so every stored record is within both ranges.
C15_InvalidSubmitRejected ==
    [][/\ (/\ lastCall'.op = "createRideRequest"
            /\ lastCall' # lastCall
            /\ \/ lastCall'.passengers \notin 1..4
               \/ lastCall'.luggage \notin 0..10)
          => /\ lastCall'.status = 400
             /\ UNCHANGED <<requests, queue, submitting>>
       /\ \A id \in 1..Len(requests') :
             /\ requests'[id].passengers \in 1..4
             /\ requests'[id].luggage \in 0..10]_vars

\* C15 witness: a submit with valid passengers and 11 luggage units was
\* answered 400 while an earlier request sits stored and queued
C15_Witness ==
    /\ lastCall.op = "createRideRequest"
    /\ lastCall.status = 400
    /\ lastCall.passengers \in 1..4
    /\ lastCall.luggage = 11
    /\ Len(requests) = 1
    /\ Len(queue) = 1

\* C16: a notification that is not delivered rolls back nothing and stops
\* nothing: the member keeps its assignment, the loop goes on to the next
\* member, and a cycle that ends has transitioned every member of its batch.
C16_NotifyFailureKeepsAssignment ==
    [][/\ \A c \in 1..MaxCycles :
             IF cycle[c].pc = "update" /\ cycle'[c] # cycle[c]
             THEN LET id == cycle[c].batch[cycle[c].i]._id
                  IN  /\ <<id, cycle[c].pool>> \notin notified'
                            => /\ requests'[id].status = WorkerRequestStatus
                               /\ requests'[id].poolId = cycle[c].pool
                               /\ cycle[c].i < Len(cycle[c].batch)
                                     => /\ cycle'[c].pc = "update"
                                        /\ cycle'[c].i = cycle[c].i + 1
                      /\ cycle'[c].pc = "idle"
                            => \A m \in BatchIds(cycle[c].batch) :
                                  /\ requests'[m].status = WorkerRequestStatus
                                  /\ requests'[m].poolId = cycle[c].pool
             ELSE TRUE
       /\ \A id \in RequestIds : IsAssigned(id) => requests'[id] = requests[id]]_vars

\* C16 witness: a pool of two members, both assigned, neither notified: the
\* first member's notification failed and the second was transitioned
C16_Witness ==
    \E p \in 1..Len(pools) :
        /\ Cardinality(poolGroup[p]) = 2
        /\ \A id \in poolGroup[p] :
              /\ IsAssigned(id)
              /\ requests[id].poolId = p
              /\ <<id, p>> \notin notified

\* the request was drained and its cycle ended without assigning it
Dropped(id) ==
    /\ requests[id].status = "pending"
    /\ id \notin submitting
    /\ ~InQueue(queue, id)
    /\ \A c \in 1..MaxCycles : id \notin BatchIds(cycle[c].batch)

\* C17: a queue or storage failure inside a cycle does not stop the scheduler:
\* no rejection leaves the callback unhandled, a cycle that ends (by a failure
\* or not) leaves its slot idle, a tick can fire whenever a slot is idle, and
\* the cycle it starts drains the head of the queue as it then is.
C17_FailureKeepsScheduler ==
    [][/\ \A c \in 1..MaxCycles :
             /\ cycle'[c].pc # "crashed"
             /\ (cycle[c].pc \in {"dequeued", "update"}
                   /\ cycle'[c].pc \notin {"dequeued", "update"})
                   => cycle'[c] = IdleCycle
             /\ (cycle[c].pc = "idle" /\ cycle'[c].pc = "dequeued")
                   => /\ cycle'[c].batch = SubSeq(queue, 1, Min(BATCH_SIZE, Len(queue)))
                      /\ cycle'[c].batch \o queue' = queue
       /\ (\E c \in 1..MaxCycles : cycle'[c].pc = "idle")
             => \E c \in 1..MaxCycles : TickGuard(c)']_vars

\* C17 witness: one request was dropped by a cycle that failed, and a cycle
\* has drained the other request and is processing it
C17_Witness ==
    /\ \E id \in RequestIds : Dropped(id) /\ cancelPc[id] = "idle"
    /\ \E c \in 1..MaxCycles : cycle[c].pc = "update"
    /\ \E c \in 1..MaxCycles : cycle[c].pc = "idle"

\* C18: running the grouping pass again on the same batch gives the same
\* pools: the same member lists in the same order, the same base fare and the
\* same cost per person.
C18_MatchDeterministic ==
    [][(mPc = "matched" /\ mPc' = "matched" /\ mBatch' = mBatch)
          => mPools' = mPools]_vars

\* detour minutes of a candidate relative to a member
DetourMinutes(member, candidate) ==
    calculateEstimatedTime(
        calculateDistance(member.pickupLocation, candidate.pickupLocation)
        + calculateDistance(member.dropoffLocation, candidate.dropoffLocation))

\* C19: in every output pool each later-added member is within 2 km of the
\* pickup of every member added before it, and its detour minutes relative to
\* each of them do not exceed its own maxDetour.
C19_MembersCompatible ==
    mPc = "matched"
    => \A p \in 1..Len(mPools) :
          \A a, b \in 1..Len(mPools[p].requests) :
              a < b
              => LET member == mBatch[mPools[p].requests[a]]
                     candidate == mBatch[mPools[p].requests[b]]
                 IN  /\ calculateDistance(member.pickupLocation,
                                          candidate.pickupLocation)
                           <= PROXIMITY_THRESHOLD_M
                     /\ DetourMinutes(member, candidate) <= candidate.maxDetour

\* GET /rides/pools: const { status = "active" } = req.query
DefaultListStatus == "active"

\* RidePool.find({ status }): the ids of the pools the listing returns (the
\* pools stored here are fewer than the default limit of 10)
getActivePools(status) == {p \in 1..Len(pools) : pools[p].status = status}

\* C20: once a cycle has committed a pool (created it and transitioned its
\* members), the pool listing called without a status filter returns it.
C20_ListingReturnsCommittedPool ==
    \A p \in 1..Len(pools) :
        (MembersOf(p) # {} /\ \A c \in 1..MaxCycles : cycle[c].pool # p)
        => p \in getActivePools(DefaultListStatus)

\* C21: the surge multiplier is 1.0 below queue size 5, 1.1 below 10, 1.25
\* below 20, 1.5 below 50 and min(2.0, 1.0 + size/100) from 50 on; it lies in
\* [1.0, 2.0], is 1.6 at size 60, and no smaller queue has a larger multiplier.
C21_SurgeMultiplier ==
    lastCall.op = "calculateSurgeMultiplier" =>
        LET size == lastCall.queueSize
            surge == lastCall.result
        IN  /\ size < 5 => surge = 100
            /\ (size >= 5 /\ size < 10) => surge = 110
            /\ (size >= 10 /\ size < 20) => surge = 125
            /\ (size >= 20 /\ size < 50) => surge = 150
            /\ size >= 50 => surge = Min(200, 100 + size)
            /\ surge >= 100 /\ surge <= 200
            /\ size = 60 => surge = 160
            /\ \A smaller \in QueueSizeChoices :
                   smaller <= size => calculateSurgeMultiplier(smaller) <= surge

C21_Witness ==
    /\ lastCall.op = "calculateSurgeMultiplier"
    /\ lastCall.queueSize = 60
    /\ lastCall.result = 160

\* C22: the final price calculatePrice returns is the base fare times the
\* product of the multipliers it reports, rounded up to the next cent.
C22_FinalPriceRoundedUp ==
    lastCall.op = "calculatePrice" =>
        LET r == lastCall.result
            product == Times(Times(Times(Times(Times(Fraction(1, 1), r.peakHour),
                                               r.weekend), r.surge), r.poolDiscount),
                             r.weather)
            n == calculateBaseFare(lastCall.distance, lastCall.duration) * product.num
            d == 20 * product.den
        IN  r.finalPrice = (n \div d) + (IF n % d > 0 THEN 1 ELSE 0)

\* C23: handed a batch of a single one-passenger request, matchRequests returns
\* one pool of size one whose fare is the final price calculatePrice gives, at
\* that hour and day, for the pool's distance and duration as a solo ride.
C23_SinglePoolFareIsSoloPrice ==
    (lastCall.op = "matchRequests" /\ lastCall.batch[1].passengers = 1)
    => LET result == lastCall.result
       IN  /\ Len(result) = 1
           /\ Len(result[1].requests) = 1
           /\ result[1].baseFare
                 = calculatePrice(result[1].estimatedDistance,
                                  result[1].estimatedDuration, 0, FALSE, 100).finalPrice

\* C24: the peak-hour multiplier is 1.5 exactly in the hours 09:00-11:00 and
\* 17:00-19:00 and 1.0 otherwise, and the pool fare of the grouping pass takes
\* the same hours as peak.
C24_PeakHoursAgree ==
    LET peakHour == getMultipliers(0, FALSE).peakHour
    IN  /\ peakHour = (IF now \in {9, 10, 17, 18} THEN 150 ELSE 100)
        /\ PoolFarePeak(now) <=> peakHour = 150

\* C26: with the multipliers fixed (same clock, queue size, pooling and
\* weather), a call of calculatePrice returns a final price no lower than the
\* one for any distance and duration that are both no greater.
C26_FinalPriceMonotone ==
    lastCall.op = "calculatePrice"
    => \A distance \in DistanceChoices, duration \in DurationChoices :
           (distance <= lastCall.distance /\ duration <= lastCall.duration)
           => calculatePrice(distance, duration, lastCall.queueSize, lastCall.isPool,
                             lastCall.weatherMultiplier).finalPrice
                <= lastCall.result.finalPrice

C26_Witness ==
    /\ lastCall.op = "calculatePrice"
    /\ lastCall.distance = 1676
    /\ lastCall.duration = 27
    /\ lastCall.result.finalPrice > lastCall.result.baseFare

\* C25: a pool's per-person cost is its fare divided by the number of member
\* requests, rounded to the nearest cent, and times the member count it is
\* within one cent per member of the fare.
C25_CostPerPersonNearestCent ==
    mPc = "matched" =>
        \A k \in 1..Len(mPools) :
            LET pool == mPools[k]
                members == Len(pool.requests)
            IN  /\ pool.costPerPerson = round(pool.baseFare, members)
                /\ Abs(pool.costPerPerson * members - pool.baseFare) <= members

\* C27: a price estimate, whatever its inputs and whether it is answered 200,
\* 400 or 500, leaves the queue, every request record and every pool record
\* as they were.
C27_EstimateReadOnly ==
    [][(lastCall'.op = "getPriceEstimate" /\ lastCall' # lastCall)
       => UNCHANGED <<queue, requests, pools>>]_vars

\* C27 witness: an estimate was answered 200 while a request sits stored and
\* queued
C27_Witness ==
    /\ lastCall.op = "getPriceEstimate"
    /\ lastCall.status = 200
    /\ lastCall.currentQueueSize = 1
    /\ lastCall.estimate.finalPrice > 0
    /\ Len(requests) = 1
    /\ Len(queue) = 1

\* request a of the batch is scanned before request b: smaller key first, equal
\* keys in arrival order
ScannedBefore(a, b) ==
    \/ SortKey(mBatch[a]) < SortKey(mBatch[b])
    \/ SortKey(mBatch[a]) = SortKey(mBatch[b]) /\ a < b

\* the members pool p held when request id was scanned for it
MembersWhenScanned(p, id) ==
    SelectSeq(mPools[p].requests, LAMBDA member : ScannedBefore(member, id))

\* a pool holding those members has a seat left and takes request id in
AcceptedBy(members, id) ==
    LET seats == MAX_PASSENGERS_PER_POOL - PrefixTotal(members, Len(members), "passengers")
    IN  /\ seats > 0
        /\ mBatch[id].passengers <= seats
        /\ \A k \in 1..Len(members) :
               areRequestsCompatible(mBatch[members[k]], mBatch[id], seats)

\* C28: first fit, no backtracking: every request is placed once; a non-seed
\* member was accepted by its pool as it stood when the member was scanned;
\* and every member, seed or not, was turned down (pool full, or rejected) by
\* each pool opened before its own.
C28_FirstFit ==
    mPc = "matched"
    => \A p \in 1..Len(mPools) :
          \A n \in 1..Len(mPools[p].requests) :
              LET id == mPools[p].requests[n]
              IN  /\ Cardinality(Placements(id)) = 1
                  /\ n > 1 => AcceptedBy(MembersWhenScanned(p, id), id)
                  /\ \A earlier \in 1..(p - 1) :
                         ~AcceptedBy(MembersWhenScanned(earlier, id), id)

\* C28 witness: the second request scanned found the first pool short of
\* seats and seeded a pool; the third, scanned after it, joined the first pool
C28_Witness ==
    /\ mPc = "matched"
    /\ Len(mPools) = 2
    /\ mPools[1].requests = <<1, 3>>
    /\ mPools[2].requests = <<2>>
    /\ ScannedBefore(2, 3)

\* C29: the batch is processed in ascending order of |pickup latitude| +
\* |pickup longitude|, ties in arrival order: pools come out in the order of
\* their seeds, each pool lists its members in that order, its pickup is its
\* first member's pickup and its drop-off is its last member's drop-off.
C29_ScanOrder ==
    mPc = "matched"
    => /\ \A p \in 1..(Len(mPools) - 1) :
             ScannedBefore(mPools[p].requests[1], mPools[p + 1].requests[1])
       /\ \A p \in 1..Len(mPools) :
             LET members == mPools[p].requests
             IN  /\ \A n \in 1..(Len(members) - 1) :
                        ScannedBefore(members[n], members[n + 1])
                 /\ mPools[p].pickupLocation = mBatch[members[1]].pickupLocation
                 /\ mPools[p].dropoffLocation
                       = mBatch[members[Len(members)]].dropoffLocation

\* C29 witness: a pool whose members arrived in another order than they are
\* listed in, two of them with the same key, and whose drop-off is not its
\* first member's
C29_Witness ==
    /\ mPc = "matched"
    /\ \E p \in 1..Len(mPools) :
          LET members == mPools[p].requests
          IN  /\ Len(members) = 3
              /\ members[1] > members[2]
              /\ SortKey(mBatch[members[2]]) = SortKey(mBatch[members[3]])
              /\ mPools[p].dropoffLocation # mBatch[members[1]].dropoffLocation

\* C30: the detour check holds a candidate to its own maxDetour, 0 included:
\* whenever the detour minutes of a candidate relative to a member exceed the
\* candidate's maxDetour, areRequestsCompatible rejects the pair.
C30_DetourHeldToOwnLimit ==
    \A a, b \in 1..Len(mBatch) :
        DetourMinutes(mBatch[a], mBatch[b]) > mBatch[b].maxDetour
        => ~areRequestsCompatible(mBatch[a], mBatch[b], MAX_PASSENGERS_PER_POOL)

\* the place of request id in list q (0: not in it)
PlaceIn(q, id) == IF InQueue(q, id) THEN CHOOSE k \in 1..Len(q) : q[k]._id = id ELSE 0

\* C31: requests are drained in queue order.  Step by step: an entry that
\* joins the queue joins behind every entry in it and the entries that stay
\* keep their order; and when a starting cycle drains request B, every request
\* A that was ahead of B in the queue (enqueued before it, not cancelled out
\* of the queue, not drained by an earlier cycle) is drained by the same cycle
\* and precedes B in its batch.
C31_DrainedInQueueOrder ==
    [][\A A, B \in DrainIds :
          /\ (InQueue(queue', A) /\ InQueue(queue', B)
               /\ PlaceIn(queue', A) < PlaceIn(queue', B))
              => \/ InQueue(queue, A) /\ ~InQueue(queue, B)
                 \/ /\ InQueue(queue, A) /\ InQueue(queue, B)
                    /\ PlaceIn(queue, A) < PlaceIn(queue, B)
          /\ \A c \in 1..MaxCycles :
                (/\ cycle[c].pc = "idle" /\ cycle'[c].pc = "dequeued"
                 /\ InQueue(cycle'[c].batch, B)
                 /\ InQueue(queue, A) /\ PlaceIn(queue, A) < PlaceIn(queue, B))
                => /\ InQueue(cycle'[c].batch, A)
                   /\ PlaceIn(cycle'[c].batch, A) < PlaceIn(cycle'[c].batch, B)]_vars

\* C31 witness: six requests waited, enqueued in another order than their
\* ids; one cycle drained the first five in that order and the cycle started
\* next drained the sixth
C31_Witness ==
    /\ cycle[1].pc = "dequeued"
    /\ [k \in 1..Len(cycle[1].batch) |-> cycle[1].batch[k]._id] = <<2, 1, 4, 3, 6>>
    /\ cycle[2].pc = "dequeued"
    /\ BatchIds(cycle[2].batch) = {5}

\* C32: a cancel of a request that is already cancelled is answered 409 and
\* changes neither the request records nor the queue.
C32_SecondCancelRejected ==
    [][(/\ lastCall'.op = "cancelRideRequest"
        /\ lastCall' # lastCall
        /\ lastCall'.requestId \in RequestIds
        /\ requests[lastCall'.requestId].status = "cancelled")
       => /\ lastCall'.status = 409
          /\ UNCHANGED <<requests, queue>>]_vars

\* C32 witness: a request was cancelled and the cancel called again on it was
\* answered 409, while another request waits in the queue
C32_Witness ==
    /\ lastCall.op = "cancelRideRequest"
    /\ lastCall.status = 409
    /\ requests[lastCall.requestId].status = "cancelled"
    /\ lastCall.requestId \in removed
    /\ Len(queue) = 1

\* C33: a request's pool reference is set only while its status is assigned
\* (or completed): a pending request and a cancelled request have none.
C33_PoolRefOnlyWhenAssigned ==
    \A id \in RequestIds :
        requests[id].poolId # NoPool
        => (IsAssigned(id) \/ requests[id].status = "completed")

\* C34: whenever no submit and no batch cycle is in progress, every pending
\* request has exactly one entry in the queue, also after a cycle that ended
\* in its catch block.
C34_NoPendingOrphan ==
    (submitting = {} /\ RunningCycles = {})
    => \A id \in RequestIds :
          requests[id].status = "pending"
          => Cardinality({k \in 1..Len(queue) : queue[k]._id = id}) = 1

\* C35: a queue entry is delivered to at most one drained batch.  With the
\* LPOPs of overlapping dequeueBatch calls interleaved, no entry is in the
\* batches of two calls or twice in one, and in every step the entries that
\* leave the queue are exactly the entries the calls receive.
C35_DeliveredToOneBatch ==
    [][/\ \A c, d \in 1..MaxCycles :
             c # d => BatchIds(cycle'[c].batch) \cap BatchIds(cycle'[d].batch) = {}
       /\ \A c \in 1..MaxCycles :
             Cardinality(BatchIds(cycle'[c].batch)) = Len(cycle'[c].batch)
       /\ {id \in PopIds : InQueue(queue, id) /\ ~InQueue(queue', id)}
            = UNION {BatchIds(cycle'[c].batch) \ BatchIds(cycle[c].batch) :
                        c \in 1..MaxCycles}]_vars

\* C35 witness: two dequeueBatch calls are in progress at once and each has
\* received entries that were queued between entries of the other
C35_Witness ==
    /\ cycle[1].pc = "popping"
    /\ cycle[2].pc = "popping"
    /\ [k \in 1..Len(cycle[1].batch) |-> cycle[1].batch[k]._id] = <<1, 3>>
    /\ [k \in 1..Len(cycle[2].batch) |-> cycle[2].batch[k]._id] = <<2, 4>>

\* the notifications a step sends
NewlyNotified == notified' \ notified

\* C36: a "Ride assigned" notification for request r and pool p is sent only
\* once r has been transitioned to assigned with pool reference p, and a
\* request that was already cancelled when its turn came is not notified.
C36_NotifiedOnlyAfterTransition ==
    [][\A id \in RequestIds, p \in 1..Len(pools) :
          <<id, p>> \in NewlyNotified
          => /\ requests'[id].status = WorkerRequestStatus
             /\ requests'[id].poolId = p
             /\ requests[id].status # "cancelled"]_vars

\* C37: every status a step leaves in a request or a pool is a value declared
\* for that record's status field, and a cycle's pool creation is not rejected
\* because of its status value: with no outage, a cycle that drained a batch
\* goes on from RidePool.create to the member updates.
C37_StatusValuesDeclared ==
    [][/\ \A id \in 1..Len(requests') : requests'[id].status \in RideRequestStatusEnum
       /\ \A p \in 1..Len(pools') : pools'[p].status \in RidePoolStatusEnum
       /\ \A c \in 1..MaxCycles :
             (/\ cycle[c].pc = "dequeued"
              /\ ~EmptyBatch(cycle[c].batch)
              /\ cycle'[c] # cycle[c])
             => cycle'[c].pc = "update"]_vars

====
